---- MODULE Spec2Model ----
(***************************************************************************)
(* Model of modules/affinity-extractor/scripts/extract_affinity.py.        *)
(*                                                                         *)
(* A buffer is a sequence of bytes (integers 0..255).  Python offsets are  *)
(* 0-based: the byte at Python offset i of buffer s is s[i + 1].           *)
(* A decoded str is a sequence of code points; for the byte values the     *)
(* buffers below contain, a code point is the byte it was decoded from.    *)
(***************************************************************************)
EXTENDS Integers, Sequences, FiniteSets, TLC

VARIABLES
    pc,             \* position in the function or in main()
    data,           \* the decompressed buffer handed to the extractors
    pattern,        \* find_all's marker argument
    positions,      \* find_all's return value
    raw,            \* content of the raw .af file
    metadata,       \* extract_metadata's return value
    layers,         \* extract_layers' return value / report["layers"]
    text_content,   \* extract_text's return value / report["text_content"]
    fonts,          \* extract_fonts' return value / report["fonts"]
    bounds,         \* extract_bounds' return value
    element_sizes,  \* report["element_sizes"]
    argv,           \* sys.argv
    env,            \* the file system and the tools main() meets
    exit_code,      \* process exit status, -1 while running
    diag,           \* the diagnostics printed so far
    emitted,        \* where the report went: "none", "stdout" or "file"
    calls,          \* the Field Extractors main() has called, in order
    obtained        \* main() holds a bytes object in data (not None)

vars == <<pc, data, pattern, positions, raw, metadata, layers, text_content,
          fonts, bounds, element_sizes, argv, env, exit_code, diag, emitted,
          calls, obtained>>

-----------------------------------------------------------------------------
(* Python sequence primitives                                              *)

Min(a, b) == IF a < b THEN a ELSE b
Max(a, b) == IF a > b THEN a ELSE b

\* s[a:b] for 0 <= a: the bytes at offsets a .. min(b, len(s)) - 1
Slice(s, a, b) == [i \in 1..Max(0, Min(b, Len(s)) - a) |-> s[a + i]]

\* s[i:i+len(p)] == p
MatchAt(s, p, i) ==
    /\ i >= 0
    /\ i + Len(p) <= Len(s)
    /\ \A k \in 1..Len(p) : s[i + k] = p[k]

\* s.find(p, pos): the lowest offset >= pos where p occurs, else -1
Find(s, p, pos) ==
    LET hits == {i \in pos..(Len(s) - Len(p)) : MatchAt(s, p, i)}
    IN  IF hits = {} THEN -1
        ELSE CHOOSE i \in hits : \A j \in hits : i <= j

\* find_all resuming behind the whole match (pos += len(pattern))
RECURSIVE find_all_past_match_from(_, _, _)
find_all_past_match_from(s, p, pos) ==
    LET hit == Find(s, p, pos)
    IN  IF hit = -1 THEN <<>>
        ELSE <<hit>> \o find_all_past_match_from(s, p, hit + Len(p))

find_all_past_match(s, p) == find_all_past_match_from(s, p, 0)

\* find_all's loop (lines 31-36): the offsets appended from search position
\* pos on
RECURSIVE find_all_from(_, _, _)
find_all_from(s, p, pos) ==
    LET hit == Find(s, p, pos)
    IN  IF hit = -1 THEN <<>>
        ELSE <<hit>> \o find_all_from(s, p, hit + 1)

find_all(s, p) == find_all_from(s, p, 0)

Range(s) == {s[i] : i \in 1..Len(s)}

-----------------------------------------------------------------------------
(* Byte classes and str primitives                                         *)

\* bytes.isalnum() of one byte: ASCII digits and letters only
IsAsciiAlnum(b) == b \in (48..57) \cup (65..90) \cup (97..122)

\* chr(b).isalnum() for b < 256: str.isalnum also accepts the Latin-1
\* letters, superscript digits and vulgar fractions
IsUnicodeAlnum(b) ==
    \/ IsAsciiAlnum(b)
    \/ b \in {170, 178, 179, 181, 185, 186, 188, 189, 190}
    \/ b \in ((192..255) \ {215, 247})

\* str.isspace() of one code point below 128
IsSpace(c) == c \in (9..13) \cup (28..32)

\* bytes.decode('ascii', errors='ignore'): bytes of 128 and above are dropped
IsAscii(b) == b < 128
DecodeAsciiIgnore(s) == SelectSeq(s, IsAscii)

RECURSIVE LStrip(_)
LStrip(s) == IF s # <<>> /\ IsSpace(Head(s)) THEN LStrip(Tail(s)) ELSE s

RECURSIVE RStrip(_)
RStrip(s) ==
    IF s # <<>> /\ IsSpace(s[Len(s)]) THEN RStrip(SubSeq(s, 1, Len(s) - 1))
    ELSE s

\* str.strip()
Strip(s) == RStrip(LStrip(s))

\* a < b for two str (or bytes), by code point and then by length
RECURSIVE LexLess(_, _)
LexLess(a, b) ==
    IF a = <<>> THEN b # <<>>
    ELSE IF b = <<>> THEN FALSE
    ELSE IF Head(a) # Head(b) THEN Head(a) < Head(b)
    ELSE LexLess(Tail(a), Tail(b))

\* sorted(S) for a set S of str
RECURSIVE SortedStrs(_)
SortedStrs(S) ==
    IF S = {} THEN <<>>
    ELSE LET m == CHOOSE x \in S : \A y \in S : x = y \/ LexLess(x, y)
         IN  <<m>> \o SortedStrs(S \ {m})

\* the concatenation of a sequence of byte strings
RECURSIVE Flatten(_)
Flatten(t) == IF t = <<>> THEN <<>> ELSE Head(t) \o Flatten(Tail(t))

-----------------------------------------------------------------------------
(* extract_layers                                                          *)

LayerMarker == <<49, 67, 103, 97, 84>>      \* b'1CgaT'

\* the byte test of the backward walk: alphanumeric or one of _ space - .
LayerByte(b) == IsAsciiAlnum(b) \/ b \in {95, 32, 45, 46}

\* the while loop of line 48: start moves left while it is above 0 and the
\* byte at start is allowed
RECURSIVE layer_walk(_, _)
layer_walk(s, start) ==
    IF start > 0 /\ LayerByte(s[start + 1]) THEN layer_walk(s, start - 1)
    ELSE start

\* the name one occurrence yields (line 50)
layer_name(s, pos) ==
    Strip(DecodeAsciiIgnore(Slice(s, layer_walk(s, pos - 1) + 1, pos)))

\* the set names after the loop over the occurrences (lines 46-52)
layer_names(s) ==
    {n \in {layer_name(s, find_all(s, LayerMarker)[i]) :
                i \in 1..Len(find_all(s, LayerMarker))} : Len(n) > 1}

\* extract_layers returning the kept names as a list, in buffer order
LongerThanOne(n) == Len(n) > 1
extract_layers_as_list(s) ==
    SelectSeq([i \in 1..Len(find_all(s, LayerMarker)) |->
                  layer_name(s, find_all(s, LayerMarker)[i])], LongerThanOne)

extract_layers(s) == SortedStrs(layer_names(s))

-----------------------------------------------------------------------------
(* extract_fonts                                                           *)

FontMarker == <<43, 121, 109, 97, 70>>      \* b'+ymaF'

\* chr(data[start]).isalnum() or chr(data[start]) in '-_'
FontByte(b) == IsUnicodeAlnum(b) \/ b \in {45, 95}

RECURSIVE font_walk(_, _)
font_walk(s, start) ==
    IF start > 0 /\ FontByte(s[start + 1]) THEN font_walk(s, start - 1)
    ELSE start

font_name(s, pos) == DecodeAsciiIgnore(Slice(s, font_walk(s, pos - 1) + 1, pos))

font_names(s) ==
    {n \in {font_name(s, find_all(s, FontMarker)[i]) :
                i \in 1..Len(find_all(s, FontMarker))} : n # <<>>}

extract_fonts(s) == SortedStrs(font_names(s))

-----------------------------------------------------------------------------
(* extract_text                                                            *)

TextMarker == <<43, 56, 102, 116, 85>>      \* b'+8ftU'

MaxTextLength == 500

\* the denylist of line 70: 'siehe', 'voir', 'vedi', 'consultar', 'ver ',
\* 'endnotes'
Denylist ==
    { <<115, 105, 101, 104, 101>>,
      <<118, 111, 105, 114>>,
      <<118, 101, 100, 105>>,
      <<99, 111, 110, 115, 117, 108, 116, 97, 114>>,
      <<118, 101, 114, 32>>,
      <<101, 110, 100, 110, 111, 116, 101, 115>> }

\* struct.unpack('<I', b): struct.error unless b holds exactly 4 bytes; the
\* unsigned 32-bit value is kept as its two 16-bit halves, hi * 65536 + lo
unpack_I(b) ==
    IF Len(b) # 4 THEN [err |-> TRUE, hi |-> 0, lo |-> 0]
    ELSE [err |-> FALSE, hi |-> b[3] + 256 * b[4], lo |-> b[1] + 256 * b[2]]

\* No byte of s begins a well-formed multi-byte UTF-8 sequence: every lead
\* byte is followed by a byte that is no continuation byte.
Utf8Plain(s) ==
    \A i \in 1..Len(s) :
        s[i] \in 194..244 => (i < Len(s) /\ s[i + 1] \notin 128..191)

\* bytes.decode('utf-8', errors='ignore') on a Utf8Plain buffer: each byte
\* below 128 is its own code point, every other byte is invalid and dropped
DecodeUtf8Ignore(s) == SelectSeq(s, IsAscii)

\* str.rstrip('\x00')
RECURSIVE RStripNul(_)
RStripNul(s) ==
    IF s # <<>> /\ s[Len(s)] = 0 THEN RStripNul(SubSeq(s, 1, Len(s) - 1))
    ELSE s

\* str.lower() of a str of code points below 128
Lower(s) == [i \in 1..Len(s) |-> IF s[i] \in 65..90 THEN s[i] + 32 ELSE s[i]]

\* x in t
Contains(t, x) == Find(t, x, 0) # -1

\* the text the occurrence at pos holds, given its in-range length (line 67)
text_at(s, pos, length) ==
    RStripNul(DecodeUtf8Ignore(Slice(s, pos + 9, pos + 9 + length)))

\* the try body with the length test 0 < length <= 500
text_body_cap_inclusive(s, pos) ==
    LET u == unpack_I(Slice(s, pos + 5, pos + 9))
    IN  IF u.err THEN [raised |-> TRUE, add |-> {}]
        ELSE IF ~(u.hi = 0 /\ 0 < u.lo /\ u.lo <= MaxTextLength)
        THEN [raised |-> FALSE, add |-> {}]
        ELSE LET text == text_at(s, pos, u.lo)
             IN  IF /\ text # <<>>
                    /\ Len(Strip(text)) > 0
                    /\ ~\E x \in Denylist : Contains(Lower(text), x)
                 THEN [raised |-> FALSE, add |-> {Strip(text)}]
                 ELSE [raised |-> FALSE, add |-> {}]

\* the try body of one occurrence (lines 65-71): whether it raised, and what
\* it added to texts
text_body(s, pos) ==
    LET u == unpack_I(Slice(s, pos + 5, pos + 9))
    IN  IF u.err THEN [raised |-> TRUE, add |-> {}]
        ELSE IF ~(u.hi = 0 /\ 0 < u.lo /\ u.lo < MaxTextLength)
        THEN [raised |-> FALSE, add |-> {}]
        ELSE LET text == text_at(s, pos, u.lo)
             IN  IF /\ text # <<>>
                    /\ Len(Strip(text)) > 0
                    /\ ~\E x \in Denylist : Contains(Lower(text), x)
                 THEN [raised |-> FALSE, add |-> {Strip(text)}]
                 ELSE [raised |-> FALSE, add |-> {}]

\* one iteration without the except clause: the exception propagates
text_iter_uncaught(s, pos) == text_body(s, pos)

\* one iteration with its try/except (lines 64-73): the handler passes
text_iter(s, pos) == [raised |-> FALSE, add |-> text_body(s, pos).add]

\* extract_text: whether an exception left the function, and its return value
extract_text(s) ==
    LET ps == find_all(s, TextMarker)
        rs == {text_iter(s, ps[i]) : i \in 1..Len(ps)}
    IN  [raised |-> \E r \in rs : r.raised,
         value  |-> SortedStrs(UNION {r.add : r \in rs})]

-----------------------------------------------------------------------------
(* extract_bounds                                                          *)

BoundsMarker == <<66, 112, 104, 83>>        \* b'BphS'

MaxDimension == 10000

\* A double is modelled exactly when its low 32 mantissa bits are zero and it
\* is zero, an infinity, a NaN, or a multiple of 0.5 below 2^15 in magnitude.
\* A finite value v is held as h = 2 * v.
RECURSIVE Pow2(_)
Pow2(n) == IF n = 0 THEN 1 ELSE 2 * Pow2(n - 1)

DoubleExp(b) == (b[8] % 128) * 16 + (b[7] \div 16)
DoubleMant(b) == (b[7] % 16) * 65536 + b[6] * 256 + b[5]
DoubleNeg(b) == b[8] >= 128

InDoubleDomain(b) ==
    /\ Len(b) = 8
    /\ \A i \in 1..4 : b[i] = 0
    /\ \/ DoubleExp(b) = 2047
       \/ DoubleExp(b) = 0 /\ DoubleMant(b) = 0
       \/ /\ DoubleExp(b) \in 1022..1037
          /\ (1048576 + DoubleMant(b)) % Pow2(1042 - DoubleExp(b)) = 0

\* the value of 8 little-endian IEEE-754 bytes
decode_double(b) ==
    IF DoubleExp(b) = 2047
    THEN IF DoubleMant(b) # 0 THEN [kind |-> "nan", h |-> 0]
         ELSE IF DoubleNeg(b) THEN [kind |-> "ninf", h |-> 0]
         ELSE [kind |-> "pinf", h |-> 0]
    ELSE IF DoubleExp(b) = 0 THEN [kind |-> "fin", h |-> 0]
    ELSE LET mag == (1048576 + DoubleMant(b)) \div Pow2(1042 - DoubleExp(b))
         IN  [kind |-> "fin", h |-> IF DoubleNeg(b) THEN -mag ELSE mag]

\* struct.unpack('<4d', b): struct.error unless b holds exactly 32 bytes
unpack_4d(b) ==
    IF Len(b) # 32 THEN [err |-> TRUE, vals |-> <<>>]
    ELSE [err |-> FALSE,
          vals |-> [k \in 1..4 |-> decode_double(SubSeq(b, 8 * k - 7, 8 * k))]]

\* a - b on doubles
FSub(a, b) ==
    IF a.kind = "nan" \/ b.kind = "nan" THEN [kind |-> "nan", h |-> 0]
    ELSE IF a.kind = "fin" /\ b.kind = "fin" THEN [kind |-> "fin", h |-> a.h - b.h]
    ELSE IF a.kind = "fin" THEN [kind |-> IF b.kind = "pinf" THEN "ninf" ELSE "pinf", h |-> 0]
    ELSE IF b.kind = "fin" THEN a
    ELSE IF a.kind = b.kind THEN [kind |-> "nan", h |-> 0]
    ELSE a

\* round(v): half to even; ValueError on NaN, OverflowError on an infinity
Round(v) ==
    IF v.kind # "fin" THEN [err |-> TRUE, n |-> 0]
    ELSE LET k == v.h \div 2
         IN  [err |-> FALSE,
              n |-> IF v.h % 2 = 0 THEN k ELSE IF k % 2 = 0 THEN k ELSE k + 1]

Area(b) == b.width * b.height

\* the try body without the upper limit on the width
bounds_body_no_width_cap(s, pos) ==
    LET u == unpack_4d(Slice(s, pos + 4, pos + 36))
    IN  IF u.err THEN [raised |-> TRUE, box |-> <<>>]
        ELSE LET w == Round(FSub(u.vals[3], u.vals[1]))
                 h == Round(FSub(u.vals[4], u.vals[2]))
             IN  IF w.err \/ h.err THEN [raised |-> TRUE, box |-> <<>>]
                 ELSE IF 0 < w.n /\ 0 < h.n /\ h.n < MaxDimension
                 THEN [raised |-> FALSE,
                       box |-> << [width |-> w.n, height |-> h.n,
                                   x |-> Round(u.vals[1]).n,
                                   y |-> Round(u.vals[2]).n] >>]
                 ELSE [raised |-> FALSE, box |-> <<>>]

\* the try body of one occurrence (lines 104-117): whether it raised, and the
\* box it offers to append (none: the empty sequence)
bounds_body(s, pos) ==
    LET u == unpack_4d(Slice(s, pos + 4, pos + 36))
    IN  IF u.err THEN [raised |-> TRUE, box |-> <<>>]
        ELSE LET w == Round(FSub(u.vals[3], u.vals[1]))
                 h == Round(FSub(u.vals[4], u.vals[2]))
             IN  IF w.err \/ h.err THEN [raised |-> TRUE, box |-> <<>>]
                 ELSE IF /\ 0 < w.n /\ w.n < MaxDimension
                         /\ 0 < h.n /\ h.n < MaxDimension
                 THEN [raised |-> FALSE,
                       box |-> << [width |-> w.n, height |-> h.n,
                                   x |-> Round(u.vals[1]).n,
                                   y |-> Round(u.vals[2]).n] >>]
                 ELSE [raised |-> FALSE, box |-> <<>>]

\* one iteration with its try/except (lines 103-119): the handler passes
bounds_iter(s, pos) == [raised |-> FALSE, box |-> bounds_body(s, pos).box]

\* the loop of lines 102-119 from the i-th occurrence on: acc is the list
\* bounds, whose boxes are the keys of seen
RECURSIVE bounds_loop(_, _, _, _)
bounds_loop(s, ps, i, acc) ==
    IF i > Len(ps) THEN [raised |-> FALSE, list |-> acc]
    ELSE LET r == bounds_iter(s, ps[i])
         IN  IF r.raised THEN [raised |-> TRUE, list |-> acc]
             ELSE IF r.box # <<>> /\ r.box[1] \notin Range(acc)
             THEN bounds_loop(s, ps, i + 1, Append(acc, r.box[1]))
             ELSE bounds_loop(s, ps, i + 1, acc)

\* list with box b put behind every box whose area is at least b's
RECURSIVE InsertByArea(_, _)
InsertByArea(list, b) ==
    IF list = <<>> THEN <<b>>
    ELSE IF Area(Head(list)) >= Area(b)
    THEN <<Head(list)>> \o InsertByArea(Tail(list), b)
    ELSE <<b>> \o list

\* list with box b put behind every box whose area is at most b's
RECURSIVE InsertByAreaAscending(_, _)
InsertByAreaAscending(list, b) ==
    IF list = <<>> THEN <<b>>
    ELSE IF Area(Head(list)) <= Area(b)
    THEN <<Head(list)>> \o InsertByAreaAscending(Tail(list), b)
    ELSE <<b>> \o list

\* the sort without reverse=True: ascending
RECURSIVE SortByAreaAscending(_)
SortByAreaAscending(list) ==
    IF list = <<>> THEN <<>>
    ELSE InsertByAreaAscending(SortByAreaAscending(SubSeq(list, 1, Len(list) - 1)),
                               list[Len(list)])

\* sorted(list, key=area, reverse=True) (line 121): descending and stable
RECURSIVE SortByAreaDesc(_)
SortByAreaDesc(list) ==
    IF list = <<>> THEN <<>>
    ELSE InsertByArea(SortByAreaDesc(SubSeq(list, 1, Len(list) - 1)), list[Len(list)])

\* extract_bounds: whether an exception left the function, and its return value
extract_bounds(s) ==
    LET r == bounds_loop(s, find_all(s, BoundsMarker), 1, <<>>)
    IN  [raised |-> r.raised, value |-> SortByAreaDesc(r.list)]

-----------------------------------------------------------------------------
(* extract_metadata                                                        *)

MetadataPrefix == <<123, 34, 100, 111, 99, 117, 109, 101, 110, 116, 34>>  \* b'{"document"'
ClosingBraces == <<125, 125>>                                            \* b'}}'

\* json.loads on text made of the characters { } " : , digits, letters and
\* blanks, without backslashes, signs, fractions or exponents: objects,
\* strings and unsigned integers.  A parse is [ok, val, next]: whether it
\* succeeded, the value, and the index behind it.
JsonFail == [ok |-> FALSE, val |-> <<>>, next |-> 0]
JsonNum(digits) == [t |-> "num", s |-> digits, items |-> {}]
JsonStr(chars) == [t |-> "str", s |-> chars, items |-> {}]
\* a dict built from the members in order: the last value of a key wins
JsonObj(members) ==
    [t |-> "obj", s |-> <<>>,
     items |-> {members[i] : i \in {j \in 1..Len(members) :
                    \A k \in (j + 1)..Len(members) : members[k].k # members[j].k}}]

IsJsonWs(c) == c \in {32, 9, 10, 13}
IsDigit(c) == c \in 48..57

RECURSIVE SkipWs(_, _)
SkipWs(s, i) == IF i <= Len(s) /\ IsJsonWs(s[i]) THEN SkipWs(s, i + 1) ELSE i

\* the string whose opening quote is at i - 1
ParseString(s, i) ==
    LET quotes == {j \in i..Len(s) : s[j] = 34}
    IN  IF quotes = {} THEN JsonFail
        ELSE LET j == CHOOSE q \in quotes : \A r \in quotes : q <= r
             IN  IF \E k \in i..(j - 1) : s[k] < 32 \/ s[k] = 92 THEN JsonFail
                 ELSE [ok |-> TRUE, val |-> JsonStr(SubSeq(s, i, j - 1)), next |-> j + 1]

RECURSIVE DigitsEnd(_, _)
DigitsEnd(s, i) == IF i <= Len(s) /\ IsDigit(s[i]) THEN DigitsEnd(s, i + 1) ELSE i

\* the unsigned integer starting at i: 0, or a non-zero digit and more digits
ParseNumber(s, i) ==
    LET j == IF s[i] = 48 THEN i + 1 ELSE DigitsEnd(s, i)
    IN  [ok |-> TRUE, val |-> JsonNum(SubSeq(s, i, j - 1)), next |-> j]

RECURSIVE ParseValue(_, _)
RECURSIVE ParseMembers(_, _, _)

\* the members of an object from the key whose opening quote is at i on
ParseMembers(s, i, acc) ==
    IF i > Len(s) \/ s[i] # 34 THEN JsonFail
    ELSE LET key == ParseString(s, i + 1)
         IN  IF ~key.ok THEN JsonFail
             ELSE LET c == SkipWs(s, key.next)
                  IN  IF c > Len(s) \/ s[c] # 58 THEN JsonFail
                      ELSE LET v == ParseValue(s, SkipWs(s, c + 1))
                           IN  IF ~v.ok THEN JsonFail
                               ELSE LET e == SkipWs(s, v.next)
                                        all == Append(acc, [k |-> key.val.s, v |-> v.val])
                                    IN  IF e > Len(s) THEN JsonFail
                                        ELSE IF s[e] = 125
                                        THEN [ok |-> TRUE, val |-> JsonObj(all), next |-> e + 1]
                                        ELSE IF s[e] = 44
                                        THEN ParseMembers(s, SkipWs(s, e + 1), all)
                                        ELSE JsonFail

ParseValue(s, i) ==
    IF i > Len(s) THEN JsonFail
    ELSE IF s[i] = 34 THEN ParseString(s, i + 1)
    ELSE IF IsDigit(s[i]) THEN ParseNumber(s, i)
    ELSE IF s[i] = 123
    THEN LET m == SkipWs(s, i + 1)
         IN  IF m <= Len(s) /\ s[m] = 125
             THEN [ok |-> TRUE, val |-> JsonObj(<<>>), next |-> m + 1]
             ELSE ParseMembers(s, m, <<>>)
    ELSE JsonFail

\* json.loads(b): [err, val]; an error stands for the exception it raises
json_loads(b) ==
    LET v == ParseValue(b, SkipWs(b, 1))
    IN  IF v.ok /\ SkipWs(b, v.next) = Len(b) + 1
        THEN [err |-> FALSE, val |-> v.val]
        ELSE [err |-> TRUE, val |-> <<>>]

\* the span end one byte short (+ 1 for + 2)
metadata_end_short(r, start) == Find(r, ClosingBraces, start) + 1

\* end of the metadata span (line 132)
metadata_end(r, start) == Find(r, ClosingBraces, start) + 2

\* extract_metadata: whether an exception left the function, and its return
\* value: <<>> for None, <<object>> for a parsed object
extract_metadata(r) ==
    LET start == Find(r, MetadataPrefix, 0)
    IN  IF start # -1
        THEN LET parsed == json_loads(Slice(r, start, metadata_end(r, start)))
             IN  IF parsed.err THEN [raised |-> FALSE, value |-> <<>>]
                 ELSE [raised |-> FALSE, value |-> <<parsed.val>>]
        ELSE [raised |-> FALSE, value |-> <<>>]

-----------------------------------------------------------------------------
(* extract_zstd_data and main                                              *)

ReportCap == 30

\* 'zstd' in f.lower() or f.startswith('4C')
NameMatches(f) ==
    \/ Contains(Lower(f), <<122, 115, 116, 100>>)
    \/ MatchAt(f, <<52, 67>>, 0)

\* extract_zstd_data: e.binwalk tells which command can be started ("direct":
\* binwalk, "nix": only nix-shell, "absent": neither, and the second
\* subprocess.run raises FileNotFoundError); e.outfiles are the files the tool
\* left in the temporary directory, in os.walk order.  The result tells
\* whether an exception left the function, whether it returned None, and the
\* bytes it returned.
extract_zstd_data(e) ==
    IF e.binwalk = "absent" THEN [raised |-> TRUE, none |-> TRUE, value |-> <<>>]
    ELSE LET hits == {i \in 1..Len(e.outfiles) : NameMatches(e.outfiles[i].name)}
         IN  IF hits = {} THEN [raised |-> FALSE, none |-> TRUE, value |-> <<>>]
             ELSE [raised |-> FALSE, none |-> FALSE,
                   value |-> e.outfiles[CHOOSE i \in hits : \A j \in hits : i <= j].content]

\* main going on without the test of line 194
NotDataUnchecked(r) == FALSE

\* not data (line 194), for the result of extract_zstd_data
NotData(r) == r.none \/ r.value = <<>>

\* extract_bounds(data)[:30] (line 205)
ReportSlice(list) == Slice(list, 0, ReportCap)

\* sys.argv[1] == '--from-bin'; argv[1] of the model is sys.argv[0]
FromBinMode(a) == Len(a) >= 2 /\ a[2] = "--from-bin"

\* output_path (lines 175 and 183): <<>> for None
OutputPath(a) ==
    IF FromBinMode(a) THEN (IF Len(a) > 3 THEN <<a[4]>> ELSE <<>>)
    ELSE (IF Len(a) > 2 THEN <<a[3]>> ELSE <<>>)

-----------------------------------------------------------------------------
(* Bounded inputs                                                          *)

MaxLen == 4     \* longest buffer of the scanner specification
MaxPat == 2     \* longest marker of the scanner specification

SeqsUpTo(S, n) == UNION {[1..k -> S] : k \in 0..n}

ScanBytes == {97, 98}
ScanBuffers == SeqsUpTo(ScanBytes, MaxLen)
ScanMarkers == SeqsUpTo(ScanBytes, MaxPat) \ {<<>>}

NoMetadata == <<>>
NoEnv == [exists |-> FALSE, stream |-> <<>>, binwalk |-> "direct", outfiles |-> <<>>]

\* every concatenation of at most n pieces of the pool
PieceBuffers(pool, n) == {Flatten(t) : t \in SeqsUpTo(pool, n)}

MaxPieces == 4  \* most pieces in a buffer of the layer and font specifications

MyLayerBuffer == <<77, 121, 76, 97, 121, 101, 114>> \o LayerMarker  \* b"MyLayer1CgaT"
LayerPool == {LayerMarker, <<77, 121>>, <<65>>, <<32>>, <<95>>, <<0>>, <<233>>}
LayerBuffers == PieceBuffers(LayerPool, MaxPieces) \cup {MyLayerBuffer}

ArialBuffer == <<65, 114, 105, 97, 108>> \o FontMarker              \* b"Arial+ymaF"
FontPool == {FontMarker, <<65, 114>>, <<65>>, <<45>>, <<32>>, <<0>>, <<233>>}
FontBuffers == PieceBuffers(FontPool, MaxPieces) \cup {ArialBuffer}

MaxTextPieces == 2  \* most pieces in a buffer of the text specification

\* n < 65536 as the 4 bytes struct.pack('<I', n)
LE32(n) == <<n % 256, n \div 256, 0, 0>>

HelloWorld == <<72, 101, 108, 108, 111, 32, 87, 111, 114, 108, 100>>    \* "Hello World"
SieheSeite == <<115, 105, 101, 104, 101, 32, 115, 101, 105, 116, 101, 32, 53>>  \* "siehe seite 5"
VerSpace == <<86, 101, 114, 32>>                                        \* "Ver "

\* a text record: the marker, the declared length, the payload
TextRecord(len4, payload) == TextMarker \o len4 \o payload

TextPool ==
    { TextRecord(LE32(11), HelloWorld),
      TextRecord(LE32(13), SieheSeite),
      TextRecord(LE32(4), VerSpace),
      TextRecord(LE32(3), VerSpace),
      TextRecord(LE32(3), <<32, 97, 32>>),
      TextRecord(LE32(3), <<97, 0, 0>>),
      TextRecord(LE32(2), <<0, 255>>),
      TextRecord(LE32(1), <<32>>),
      TextRecord(LE32(0), HelloWorld),
      TextRecord(LE32(MaxTextLength), HelloWorld),
      TextRecord(LE32(MaxTextLength - 1), HelloWorld),
      TextRecord(<<11, 0, 1, 0>>, HelloWorld),
      TextMarker,
      TextMarker \o <<11, 0>>,
      <<255>> }

TextBuffers == {b \in PieceBuffers(TextPool, MaxTextPieces) : Utf8Plain(b)}

MaxBoxPieces == 2   \* most pieces in a buffer of the bounds specification

RECURSIVE FloorLog2(_)
FloorLog2(n) == IF n < 2 THEN 0 ELSE 1 + FloorLog2(n \div 2)

\* struct.pack('<d', h / 2) for an integer h, 0 <= h < 2^16
DoubleBytes(h) ==
    IF h = 0 THEN <<0, 0, 0, 0, 0, 0, 0, 0>>
    ELSE LET k == FloorLog2(h)
             e == k + 1022
             m == h * Pow2(20 - k) - 1048576
         IN  <<0, 0, 0, 0, m % 256, (m \div 256) % 256,
               (e % 16) * 16 + (m \div 65536), e \div 16>>

NegDoubleBytes(h) == [DoubleBytes(h) EXCEPT ![8] = @ + 128]
NaNBytes == <<0, 0, 0, 0, 0, 0, 248, 127>>
InfBytes == <<0, 0, 0, 0, 0, 0, 240, 127>>

\* a box record: the marker and four doubles x1, y1, x2, y2
BoxRecord(x1, y1, x2, y2) == BoundsMarker \o x1 \o y1 \o x2 \o y2

\* the box record of the doubles h1/2, h2/2, h3/2, h4/2
Box(h1, h2, h3, h4) ==
    BoxRecord(DoubleBytes(h1), DoubleBytes(h2), DoubleBytes(h3), DoubleBytes(h4))

BoxPool ==
    { Box(0, 0, 20, 20),            \* 10 x 10
      Box(0, 0, 500, 400),          \* 250 x 200
      Box(0, 0, 120, 100),          \* 60 x 50
      Box(0, 0, 20, 200),           \* 10 x 100
      Box(0, 0, 200, 20),           \* 100 x 10
      Box(0, 0, 30000, 20),         \* width 15000
      Box(0, 0, 20000, 20),         \* width 10000
      Box(0, 0, 19999, 20),         \* width round(9999.5) = 10000
      Box(0, 0, 19997, 20),         \* width round(9998.5) = 9998
      Box(10, 10, 10, 30),          \* width 0
      Box(0, 0, 1, 20),             \* width round(0.5) = 0
      Box(0, 0, 3, 20),             \* width round(1.5) = 2
      Box(1, 0, 6, 20),             \* width round(2.5) = 2, x round(0.5) = 0
      Box(20, 0, 0, 20),            \* width -10
      BoxRecord(NegDoubleBytes(4), DoubleBytes(0), DoubleBytes(20), DoubleBytes(20)),
      BoxRecord(DoubleBytes(0), DoubleBytes(0), NaNBytes, DoubleBytes(20)),
      BoxRecord(DoubleBytes(0), DoubleBytes(0), DoubleBytes(20), InfBytes),
      BoundsMarker,
      BoundsMarker \o DoubleBytes(0) \o DoubleBytes(0) \o DoubleBytes(20) }

\* every complete 32-byte field behind a BphS marker holds modelled doubles
BoundsDomain(s) ==
    \A pos \in 0..(Len(s) - 36) :
        MatchAt(s, BoundsMarker, pos) =>
            \A k \in 0..3 : InDoubleDomain(Slice(s, pos + 4 + 8 * k, pos + 12 + 8 * k))

\* a 10 x 10 box, a box of width 15000 and a box of width 0
GoodAndRejected ==
    Flatten(<<Box(0, 0, 20, 20), Box(0, 0, 30000, 20), Box(10, 10, 10, 30)>>)

BoxBuffers ==
    {b \in PieceBuffers(BoxPool, MaxBoxPieces) \cup {GoodAndRejected} :
        BoundsDomain(b)}

MaxRawPieces == 4   \* most pieces in a raw file of the metadata specification

\* {"document":{"a":1}}x
RawWithMetadata ==
    MetadataPrefix \o <<58, 123, 34, 97, 34, 58, 49, 125, 125, 120>>
\* {"document":{"a":{}},"a":1}
RawCutShort ==
    MetadataPrefix \o <<58, 123, 34, 97, 34, 58, 123, 125, 125, 44, 34, 97, 34, 58, 49, 125>>
\* {"document":{"a":1,"a":11}}
RawDuplicateKey ==
    MetadataPrefix \o <<58, 123, 34, 97, 34, 58, 49, 44, 34, 97, 34, 58, 49, 49, 125, 125>>

\* {"document"   {"document":   {   }   }}   1   "a":1   ,   x
RawPool ==
    { MetadataPrefix, MetadataPrefix \o <<58>>, <<123>>, <<125>>, ClosingBraces,
      <<49>>, <<34, 97, 34, 58, 49>>, <<44>>, <<120>> }

RawFiles ==
    PieceBuffers(RawPool, MaxRawPieces)
        \cup {RawWithMetadata, RawCutShort, RawDuplicateKey}

MaxMainPieces == 2  \* most pieces in a stream main() reads
MaxBoxRun == 32     \* most boxes in a generated run of distinct boxes
MaxOutFiles == 2    \* most files the extraction tool leaves behind

MainPool ==
    { <<0, 77, 121>> \o LayerMarker,                    \* layer "My"
      <<0, 65, 95, 49>> \o LayerMarker,                 \* layer "A_1"
      <<0, 65, 114>> \o FontMarker,                     \* font "Ar"
      <<0, 65>> \o FontMarker,                          \* font "A"
      TextRecord(LE32(11), HelloWorld),
      TextRecord(LE32(3), VerSpace),
      TextMarker \o <<11, 0>>,                          \* cut in the length
      Box(0, 0, 20, 20),
      Box(0, 0, 500, 400),
      Box(0, 0, 120, 100),
      BoxRecord(DoubleBytes(0), DoubleBytes(0), NaNBytes, DoubleBytes(20)),
      BoundsMarker \o DoubleBytes(0) \o DoubleBytes(0) \o DoubleBytes(20) }

\* n boxes of pairwise different height, their areas not in order
BoxRun(n) == Flatten([k \in 1..n |-> Box(0, 0, 2 * (((7 * k) % 11) + 1), 2 * k)])

\* every text field the text extractor decodes is Utf8Plain
TextDomain(s) ==
    \A pos \in 0..(Len(s) - 9) :
        (MatchAt(s, TextMarker, pos) /\ s[pos + 8] = 0 /\ s[pos + 9] = 0) =>
            Utf8Plain(Slice(s, pos + 9, pos + 9 + s[pos + 6] + 256 * s[pos + 7]))

\* each kind of record twice
EachTwice ==
    Flatten(<< <<0, 77, 121>> \o LayerMarker, <<0, 77, 121>> \o LayerMarker,
               <<0, 65, 114>> \o FontMarker, <<0, 65, 114>> \o FontMarker,
               TextRecord(LE32(11), HelloWorld), TextRecord(LE32(11), HelloWorld),
               Box(0, 0, 20, 20), Box(0, 0, 20, 20) >>)

\* good records, then a box that cannot be rounded, a box cut after three
\* doubles and a text record cut inside its length
GoodAndMalformed ==
    Flatten(<< TextRecord(LE32(11), HelloWorld), Box(0, 0, 20, 20),
               BoxRecord(DoubleBytes(0), DoubleBytes(0), NaNBytes, DoubleBytes(20)),
               BoundsMarker \o DoubleBytes(0) \o DoubleBytes(0) \o DoubleBytes(20),
               TextMarker \o <<11, 0>> >>)

\* boxes of area 100, 50000 and 3000
ThreeAreas ==
    Flatten(<<Box(0, 0, 20, 20), Box(0, 0, 500, 400), Box(0, 0, 120, 100)>>)

MainBuffers ==
    {b \in PieceBuffers(MainPool, MaxMainPieces)
              \cup {BoxRun(n) : n \in (ReportCap - 2)..MaxBoxRun}
              \cup {EachTwice, GoodAndMalformed, ThreeAreas} :
        BoundsDomain(b) /\ TextDomain(b)}

\* the streams of the runs that go through the extraction tool
ToolBuffers == {<<>>, TextRecord(LE32(11), HelloWorld), Box(0, 0, 20, 20)}

\* file names: "4C", "ZSTD", "x"
OutNames == {<<52, 67>>, <<90, 83, 84, 68>>, <<120>>}
OutFiles(b) == SeqsUpTo([name : OutNames, content : {<<>>, b}], MaxOutFiles)

Idle ==
    /\ raw = <<>> /\ metadata = NoMetadata
    /\ layers = <<>> /\ text_content = <<>> /\ fonts = <<>>
    /\ bounds = <<>> /\ element_sizes = <<>>
    /\ argv = <<>> /\ env = NoEnv
    /\ exit_code = -1 /\ diag = <<>> /\ emitted = "none"
    /\ calls = <<>> /\ obtained = FALSE

-----------------------------------------------------------------------------
(* The marker scanner on its own                                           *)

InitScan ==
    /\ pc = "call"
    /\ data \in ScanBuffers
    /\ pattern \in ScanMarkers
    /\ positions = <<>>
    /\ Idle

CallFindAll ==
    /\ pc = "call"
    /\ positions' = find_all(data, pattern)
    /\ pc' = "ret"
    /\ UNCHANGED <<data, pattern, raw, metadata, layers, text_content, fonts,
                   bounds, element_sizes, argv, env, exit_code, diag, emitted,
                   calls, obtained>>

NextScan == CallFindAll

SpecScan == InitScan /\ [][NextScan]_vars

\* C1: when find_all returns, its result lists exactly the offsets at which
\* the marker occurs in the buffer (overlapping occurrences included), in
\* strictly increasing order; with no occurrence it is the empty list.
FindAllExact ==
    pc = "ret" =>
        /\ Range(positions) = {i \in 0..Len(data) : MatchAt(data, pattern, i)}
        /\ \A i \in 1..(Len(positions) - 1) : positions[i] < positions[i + 1]

\* an overlapping pair of occurrences was found
FindAllOverlapWitness ==
    /\ pc = "ret"
    /\ \E i \in 1..(Len(positions) - 1) :
          positions[i + 1] < positions[i] + Len(pattern)

\* the offsets at which marker m occurs in s
Occurrences(s, m) == {i \in 0..Len(s) : MatchAt(s, m, i)}

-----------------------------------------------------------------------------
(* extract_layers on its own                                               *)

InitLayers ==
    /\ pc = "call"
    /\ data \in LayerBuffers
    /\ pattern = LayerMarker
    /\ positions = <<>>
    /\ Idle

CallExtractLayers ==
    /\ pc = "call"
    /\ layers' = extract_layers(data)
    /\ pc' = "ret"
    /\ UNCHANGED <<data, pattern, positions, raw, metadata, text_content, fonts,
                   bounds, element_sizes, argv, env, exit_code, diag, emitted,
                   calls, obtained>>

NextLayers == CallExtractLayers

SpecLayers == InitLayers /\ [][NextLayers]_vars

\* where the maximal run of allowed bytes ending just before offset pos starts
LayerRunStart(s, pos) ==
    CHOOSE a \in 0..pos :
        /\ \A i \in a..(pos - 1) : LayerByte(s[i + 1])
        /\ a = 0 \/ ~LayerByte(s[a])

\* C2: the names extract_layers returns are, for every occurrence of 1CgaT,
\* the whole maximal run of allowed bytes ending just before the marker
\* (reaching offset 0 when no disallowed byte precedes it), trimmed, and kept
\* when longer than one character; b"MyLayer1CgaT" gives ["MyLayer"].
LayersAreMaximalRuns ==
    pc = "ret" =>
        layers = SortedStrs(
            {n \in {Strip(DecodeAsciiIgnore(Slice(data, LayerRunStart(data, pos), pos))) :
                        pos \in Occurrences(data, LayerMarker)} : Len(n) > 1})

-----------------------------------------------------------------------------
(* extract_fonts on its own                                                *)

InitFonts ==
    /\ pc = "call"
    /\ data \in FontBuffers
    /\ pattern = FontMarker
    /\ positions = <<>>
    /\ Idle

CallExtractFonts ==
    /\ pc = "call"
    /\ fonts' = extract_fonts(data)
    /\ pc' = "ret"
    /\ UNCHANGED <<data, pattern, positions, raw, metadata, layers, text_content,
                   bounds, element_sizes, argv, env, exit_code, diag, emitted,
                   calls, obtained>>

NextFonts == CallExtractFonts

SpecFonts == InitFonts /\ [][NextFonts]_vars

FontRunStart(s, pos) ==
    CHOOSE a \in 0..pos :
        /\ \A i \in a..(pos - 1) : FontByte(s[i + 1])
        /\ a = 0 \/ ~FontByte(s[a])

\* C10: the names extract_fonts returns are, for every occurrence of +ymaF,
\* the maximal run of alphanumeric, '-' or '_' bytes ending just before the
\* marker (reaching offset 0 when no disallowed byte precedes it), with no
\* minimum length; every name is non-empty and an empty run adds nothing.
FontsAreMaximalRuns ==
    pc = "ret" =>
        fonts = SortedStrs(
            {n \in {DecodeAsciiIgnore(Slice(data, FontRunStart(data, pos), pos)) :
                        pos \in Occurrences(data, FontMarker)} : n # <<>>})

-----------------------------------------------------------------------------
(* extract_text on its own                                                 *)

InitText ==
    /\ pc = "call"
    /\ data \in TextBuffers
    /\ pattern = TextMarker
    /\ positions = <<>>
    /\ Idle

CallExtractText ==
    /\ pc = "call"
    /\ LET r == extract_text(data)
       IN  IF r.raised
           THEN pc' = "raised" /\ UNCHANGED text_content
           ELSE pc' = "ret" /\ text_content' = r.value
    /\ UNCHANGED <<data, pattern, positions, raw, metadata, layers, fonts,
                   bounds, element_sizes, argv, env, exit_code, diag, emitted,
                   calls, obtained>>

NextText == CallExtractText

SpecText == InitText /\ [][NextText]_vars

\* the occurrences of +8ftU with all 4 length bytes behind them
TextOccurrences(s) == {pos \in Occurrences(s, TextMarker) : pos + 9 <= Len(s)}

\* 0 < L < 500 for the little-endian length L behind the marker at pos
DeclaredInRange(s, pos) ==
    /\ s[pos + 8] = 0 /\ s[pos + 9] = 0
    /\ 0 < s[pos + 6] + 256 * s[pos + 7]
    /\ s[pos + 6] + 256 * s[pos + 7] < 500

\* the L bytes from 9 bytes behind the marker start, decoded, trailing nulls
\* stripped
DeclaredText(s, pos) ==
    LET L == s[pos + 6] + 256 * s[pos + 7]
        b == SelectSeq([i \in 1..Min(L, Len(s) - (pos + 9)) |-> s[pos + 9 + i]], IsAscii)
        n == CHOOSE k \in 0..Len(b) :
                /\ \A i \in (k + 1)..Len(b) : b[i] = 0
                /\ k = 0 \/ b[k] # 0
    IN  SubSeq(b, 1, n)

HasDenied(t) ==
    \E x \in Denylist : \E i \in 0..Len(t) : MatchAt(t, x, i)

\* what the well-formed occurrences contribute: the trimmed strings of the
\* occurrences whose length is complete and in range, whose trimmed string is
\* non-empty and whose lowercased untrimmed string holds no denylist token
TextContributions(s) ==
    {Strip(DeclaredText(s, pos)) :
        pos \in {q \in TextOccurrences(s) :
                    /\ DeclaredInRange(s, q)
                    /\ Strip(DeclaredText(s, q)) # <<>>
                    /\ ~HasDenied(Lower(DeclaredText(s, q)))}}

\* C3 as stated: an occurrence contributes its trimmed string exactly when
\* 0 < L < 500, the trimmed string is non-empty and the lowercased TRIMMED
\* string contains no denylist token.
TextFilterOnTrimmed ==
    pc = "ret" =>
        text_content = SortedStrs(
            {Strip(DeclaredText(data, pos)) :
                pos \in {q \in TextOccurrences(data) :
                            /\ DeclaredInRange(data, q)
                            /\ Strip(DeclaredText(data, q)) # <<>>
                            /\ ~HasDenied(Lower(Strip(DeclaredText(data, q))))}})

\* C3 amended: an occurrence contributes its trimmed string exactly when
\* 0 < L < 500, the trimmed string is non-empty and the lowercased string
\* BEFORE trimming (trailing nulls stripped) contains no denylist token; the
\* result is the sorted set of the contributions.
TextFilterOnUntrimmed ==
    pc = "ret" => text_content = SortedStrs(TextContributions(data))

\* "Hello World" with L = 11 was included and "siehe seite 5" was excluded
TextFilterWitness ==
    /\ pc = "ret"
    /\ \E p, q \in TextOccurrences(data) :
          /\ DeclaredInRange(data, p) /\ DeclaredText(data, p) = HelloWorld
          /\ data[p + 6] = 11 /\ data[p + 7] = 0
          /\ DeclaredInRange(data, q) /\ DeclaredText(data, q) = SieheSeite
    /\ text_content = <<HelloWorld>>

-----------------------------------------------------------------------------
(* extract_bounds on its own                                               *)

InitBounds ==
    /\ pc = "call"
    /\ data \in BoxBuffers
    /\ pattern = BoundsMarker
    /\ positions = <<>>
    /\ Idle

CallExtractBounds ==
    /\ pc = "call"
    /\ LET r == extract_bounds(data)
       IN  IF r.raised
           THEN pc' = "raised" /\ UNCHANGED bounds
           ELSE pc' = "ret" /\ bounds' = r.value
    /\ UNCHANGED <<data, pattern, positions, raw, metadata, layers, text_content,
                   fonts, element_sizes, argv, env, exit_code, diag, emitted,
                   calls, obtained>>

NextBounds == CallExtractBounds

SpecBounds == InitBounds /\ [][NextBounds]_vars

\* the occurrences of BphS with all 32 bytes behind them
BoxOccurrences(s) == {pos \in Occurrences(s, BoundsMarker) : pos + 36 <= Len(s)}

\* the k-th double (1..4) behind the marker at pos
BoxValue(s, pos, k) == decode_double(Slice(s, pos + 8 * k - 4, pos + 8 * k + 4))
BoxWidth(s, pos) == Round(FSub(BoxValue(s, pos, 3), BoxValue(s, pos, 1)))
BoxHeight(s, pos) == Round(FSub(BoxValue(s, pos, 4), BoxValue(s, pos, 2)))

\* what the well-formed occurrences contribute: the boxes of the occurrences
\* with 32 bytes behind them, roundable values, and width and height in range
BoxContributions(s) ==
    {[width |-> BoxWidth(s, pos).n, height |-> BoxHeight(s, pos).n,
      x |-> Round(BoxValue(s, pos, 1)).n, y |-> Round(BoxValue(s, pos, 2)).n] :
        pos \in {q \in BoxOccurrences(s) :
                    /\ ~BoxWidth(s, q).err /\ ~BoxHeight(s, q).err
                    /\ 0 < BoxWidth(s, q).n /\ BoxWidth(s, q).n < 10000
                    /\ 0 < BoxHeight(s, q).n /\ BoxHeight(s, q).n < 10000}}

\* C4: every box extract_bounds returns has 0 < width < 10000 and
\* 0 < height < 10000, and is the rounded width, height, x1 and y1 of an
\* occurrence; an occurrence of width or height 0, negative or 10000 or more
\* is not in the result.
BoundsInRange ==
    pc = "ret" =>
        \A i \in 1..Len(bounds) :
            /\ 0 < bounds[i].width /\ bounds[i].width < 10000
            /\ 0 < bounds[i].height /\ bounds[i].height < 10000
            /\ \E pos \in BoxOccurrences(data) :
                  /\ ~BoxWidth(data, pos).err /\ BoxWidth(data, pos).n = bounds[i].width
                  /\ ~BoxHeight(data, pos).err /\ BoxHeight(data, pos).n = bounds[i].height
                  /\ Round(BoxValue(data, pos, 1)).n = bounds[i].x
                  /\ Round(BoxValue(data, pos, 2)).n = bounds[i].y

\* a buffer with a valid box, a box of width 15000 and a box of width 0 was
\* processed, and the valid box alone returned
BoundsRejectWitness ==
    /\ pc = "ret"
    /\ Len(bounds) = 1
    /\ \E pos \in BoxOccurrences(data) :
          ~BoxWidth(data, pos).err /\ BoxWidth(data, pos).n = 15000
    /\ \E pos \in BoxOccurrences(data) :
          ~BoxWidth(data, pos).err /\ BoxWidth(data, pos).n = 0

-----------------------------------------------------------------------------
(* extract_metadata on its own                                             *)

InitMeta ==
    /\ pc = "call"
    /\ data = <<>> /\ pattern = MetadataPrefix /\ positions = <<>>
    /\ raw \in RawFiles
    /\ metadata = NoMetadata
    /\ layers = <<>> /\ text_content = <<>> /\ fonts = <<>>
    /\ bounds = <<>> /\ element_sizes = <<>>
    /\ argv = <<>> /\ env = NoEnv
    /\ exit_code = -1 /\ diag = <<>> /\ emitted = "none"
    /\ calls = <<>> /\ obtained = FALSE

CallExtractMetadata ==
    /\ pc = "call"
    /\ LET r == extract_metadata(raw)
       IN  IF r.raised
           THEN pc' = "raised" /\ UNCHANGED metadata
           ELSE pc' = "ret" /\ metadata' = r.value
    /\ UNCHANGED <<data, pattern, positions, raw, layers, text_content, fonts,
                   bounds, element_sizes, argv, env, exit_code, diag, emitted,
                   calls, obtained>>

NextMeta == CallExtractMetadata

SpecMeta == InitMeta /\ [][NextMeta]_vars

\* the offset of the first {"document" in r, and of the first }} at or behind it
FirstPrefix(r) ==
    CHOOSE i \in Occurrences(r, MetadataPrefix) :
        \A j \in Occurrences(r, MetadataPrefix) : i <= j
ClosingsBehind(r, start) == {i \in Occurrences(r, ClosingBraces) : i >= start}
FirstClosing(r, start) ==
    CHOOSE i \in ClosingsBehind(r, start) : \A j \in ClosingsBehind(r, start) : i <= j

\* the bytes of r from offset a up to, not including, offset b
Span(r, a, b) == SubSeq(r, a + 1, b)

\* C9: extract_metadata never raises; without the prefix it yields nothing;
\* with it, it yields the object parsed from the span that runs from the
\* first prefix through the first following }}, and nothing when that span
\* is not valid JSON or no }} follows.
MetadataSpan ==
    /\ pc # "raised"
    /\ pc = "ret" =>
        IF Occurrences(raw, MetadataPrefix) = {} THEN metadata = <<>>
        ELSE IF ClosingsBehind(raw, FirstPrefix(raw)) = {} THEN metadata = <<>>
        ELSE LET span == Span(raw, FirstPrefix(raw),
                              FirstClosing(raw, FirstPrefix(raw)) + 2)
             IN  IF json_loads(span).err THEN metadata = <<>>
                 ELSE metadata = <<json_loads(span).val>>

\* a raw file whose metadata is followed by other bytes was parsed
MetadataWitness ==
    /\ pc = "ret"
    /\ metadata # <<>>
    /\ Occurrences(raw, MetadataPrefix) # {}
    /\ FirstClosing(raw, FirstPrefix(raw)) + 2 < Len(raw)

-----------------------------------------------------------------------------
(* main                                                                    *)

\* the runs with no input path, the runs on a pre-extracted stream, and the
\* runs on a document that goes through the extraction tool
InitMain ==
    /\ pc = "main"
    /\ data = <<>> /\ pattern = <<>> /\ positions = <<>>
    /\ metadata = NoMetadata
    /\ layers = <<>> /\ text_content = <<>> /\ fonts = <<>>
    /\ bounds = <<>> /\ element_sizes = <<>>
    /\ exit_code = -1 /\ diag = <<>> /\ emitted = "none"
    /\ calls = <<>> /\ obtained = FALSE
    /\ \/ /\ argv \in {<<"extract_affinity.py">>, <<"extract_affinity.py", "--from-bin">>}
          /\ env = NoEnv
          /\ raw = <<>>
       \/ /\ argv \in {<<"extract_affinity.py", "--from-bin", "stream.bin">>,
                       <<"extract_affinity.py", "--from-bin", "stream.bin", "out.json">>}
          /\ \E b \in MainBuffers, x \in BOOLEAN :
                env = [exists |-> x, stream |-> b, binwalk |-> "direct", outfiles |-> <<>>]
          /\ raw = <<>>
       \/ /\ argv \in {<<"extract_affinity.py", "doc.af">>,
                       <<"extract_affinity.py", "doc.af", "out.json">>}
          /\ \E b \in ToolBuffers, x \in BOOLEAN, w \in {"direct", "nix", "absent"} :
                \E fs \in OutFiles(b) :
                    env = [exists |-> x, stream |-> b, binwalk |-> w, outfiles |-> fs]
          /\ raw \in {<<>>, RawWithMetadata}

\* sys.exit(1) behind a message, or an uncaught exception's traceback
Exit(message, status) ==
    /\ diag' = Append(diag, message)
    /\ exit_code' = status
    /\ pc' = "exit"

\* lines 165-167
MainNoArguments ==
    /\ pc = "main"
    /\ Len(argv) < 2
    /\ Exit("usage", 1)
    /\ UNCHANGED <<data, pattern, positions, raw, metadata, layers, text_content,
                   fonts, bounds, element_sizes, argv, env, emitted, calls, obtained>>

\* lines 170-173
MainFromBinNoPath ==
    /\ pc = "main"
    /\ FromBinMode(argv)
    /\ Len(argv) < 3
    /\ Exit("Error: --from-bin requires a path to extracted binary data", 1)
    /\ UNCHANGED <<data, pattern, positions, raw, metadata, layers, text_content,
                   fonts, bounds, element_sizes, argv, env, emitted, calls, obtained>>

\* lines 174-180: open() raises FileNotFoundError when the file is missing
MainFromBinRead ==
    /\ pc = "main"
    /\ FromBinMode(argv)
    /\ Len(argv) >= 3
    /\ IF env.exists
       THEN /\ data' = env.stream
            /\ obtained' = TRUE
            /\ metadata' = <<>>
            /\ pc' = "layers"
            /\ UNCHANGED <<diag, exit_code>>
       ELSE /\ Exit("Traceback: FileNotFoundError", 1)
            /\ UNCHANGED <<data, obtained, metadata>>
    /\ UNCHANGED <<pattern, positions, raw, layers, text_content, fonts, bounds,
                   element_sizes, argv, env, emitted, calls>>

\* lines 182-187
MainAfMissing ==
    /\ pc = "main"
    /\ Len(argv) >= 2
    /\ ~FromBinMode(argv)
    /\ ~env.exists
    /\ Exit("Error: not found", 1)
    /\ UNCHANGED <<data, pattern, positions, raw, metadata, layers, text_content,
                   fonts, bounds, element_sizes, argv, env, emitted, calls, obtained>>

\* lines 189-190
MainExtractMetadata ==
    /\ pc = "main"
    /\ Len(argv) >= 2
    /\ ~FromBinMode(argv)
    /\ env.exists
    /\ LET r == extract_metadata(raw)
       IN  IF r.raised
           THEN Exit("Traceback: extract_metadata", 1) /\ UNCHANGED metadata
           ELSE /\ metadata' = r.value
                /\ diag' = Append(diag, "Extracting from")
                /\ pc' = "zstd"
                /\ UNCHANGED exit_code
    /\ UNCHANGED <<data, pattern, positions, raw, layers, text_content, fonts,
                   bounds, element_sizes, argv, env, emitted, calls, obtained>>

\* lines 191-196
MainExtractZstd ==
    /\ pc = "zstd"
    /\ LET r == extract_zstd_data(env)
       IN  IF r.raised
           THEN Exit("Traceback: FileNotFoundError", 1) /\ UNCHANGED <<data, obtained>>
           ELSE /\ data' = r.value
                /\ obtained' = ~r.none
                /\ IF NotData(r)
                   THEN Exit("Error: Could not extract ZSTD data. Is binwalk installed?", 1)
                   ELSE pc' = "layers" /\ UNCHANGED <<diag, exit_code>>
    /\ UNCHANGED <<pattern, positions, raw, metadata, layers, text_content, fonts,
                   bounds, element_sizes, argv, env, emitted, calls>>

\* line 202
MainLayers ==
    /\ pc = "layers"
    /\ calls' = Append(calls, "extract_layers")
    /\ layers' = extract_layers(data)
    /\ pc' = "text"
    /\ UNCHANGED <<data, pattern, positions, raw, metadata, text_content, fonts,
                   bounds, element_sizes, argv, env, exit_code, diag, emitted,
                   obtained>>

\* line 203
MainText ==
    /\ pc = "text"
    /\ calls' = Append(calls, "extract_text")
    /\ LET r == extract_text(data)
       IN  IF r.raised
           THEN Exit("Traceback: extract_text", 1) /\ UNCHANGED text_content
           ELSE /\ text_content' = r.value
                /\ pc' = "fonts"
                /\ UNCHANGED <<diag, exit_code>>
    /\ UNCHANGED <<data, pattern, positions, raw, metadata, layers, fonts, bounds,
                   element_sizes, argv, env, emitted, obtained>>

\* line 204
MainFonts ==
    /\ pc = "fonts"
    /\ calls' = Append(calls, "extract_fonts")
    /\ fonts' = extract_fonts(data)
    /\ pc' = "bounds"
    /\ UNCHANGED <<data, pattern, positions, raw, metadata, layers, text_content,
                   bounds, element_sizes, argv, env, exit_code, diag, emitted,
                   obtained>>

\* line 205
MainBounds ==
    /\ pc = "bounds"
    /\ calls' = Append(calls, "extract_bounds")
    /\ LET r == extract_bounds(data)
       IN  IF r.raised
           THEN Exit("Traceback: extract_bounds", 1) /\ UNCHANGED <<bounds, element_sizes>>
           ELSE /\ bounds' = r.value
                /\ element_sizes' = ReportSlice(r.value)
                /\ pc' = "dump"
                /\ UNCHANGED <<diag, exit_code>>
    /\ UNCHANGED <<data, pattern, positions, raw, metadata, layers, text_content,
                   fonts, argv, env, emitted, obtained>>

\* lines 208-215: the report goes to the output path or to standard output
MainEmit ==
    /\ pc = "dump"
    /\ IF OutputPath(argv) # <<>>
       THEN emitted' = "file" /\ diag' = Append(diag, "Written to")
       ELSE emitted' = "stdout" /\ UNCHANGED diag
    /\ exit_code' = 0
    /\ pc' = "exit"
    /\ UNCHANGED <<data, pattern, positions, raw, metadata, layers, text_content,
                   fonts, bounds, element_sizes, argv, env, calls, obtained>>

Next ==
    \/ MainNoArguments
    \/ MainFromBinNoPath
    \/ MainFromBinRead
    \/ MainAfMissing
    \/ MainExtractMetadata
    \/ MainExtractZstd
    \/ MainLayers
    \/ MainText
    \/ MainFonts
    \/ MainBounds
    \/ MainEmit

Spec == InitMain /\ [][Next]_vars

-----------------------------------------------------------------------------
(* Claims about a run of main                                              *)

\* the extractor named f has returned to main
Returned(f) ==
    /\ \E i \in 1..Len(calls) : calls[i] = f
    /\ pc # "exit" \/ emitted # "none"

\* C5: extract_bounds returns the valid distinct boxes in non-increasing
\* order of area, and element_sizes is its first min(30, n) boxes: with more
\* than 30 boxes the report holds 30, none smaller in area than an omitted one.
BoundsByAreaCapped ==
    Returned("extract_bounds") =>
        /\ Range(bounds) = BoxContributions(data)
        /\ Len(bounds) = Cardinality(BoxContributions(data))
        /\ \A i \in 1..(Len(bounds) - 1) : Area(bounds[i]) >= Area(bounds[i + 1])
        /\ Len(element_sizes) = Min(30, Len(bounds))
        /\ \A i \in 1..Len(element_sizes) : element_sizes[i] = bounds[i]
        /\ \A i \in 1..Len(element_sizes) : \A j \in 31..Len(bounds) :
              Area(bounds[j]) <= Area(element_sizes[i])

\* a report was emitted for a buffer of more than 30 valid boxes that do not
\* lie in the buffer in order of area
BoundsCapWitness ==
    /\ pc = "exit" /\ emitted # "none"
    /\ Len(bounds) > 30
    /\ Len(element_sizes) = 30
    /\ \E p, q \in BoxOccurrences(data) :
          p < q /\ BoxWidth(data, p).n * BoxHeight(data, p).n
                      < BoxWidth(data, q).n * BoxHeight(data, q).n

StrictlyAscending(list) ==
    \A i \in 1..(Len(list) - 1) : LexLess(list[i], list[i + 1])

\* C6: the lists of layers, texts and fonts are strictly ascending (sorted,
\* no value twice) and no two boxes of extract_bounds are equal in
\* (width, height, x, y).
SortedAndDistinct ==
    /\ StrictlyAscending(layers)
    /\ StrictlyAscending(text_content)
    /\ StrictlyAscending(fonts)
    /\ \A i, j \in 1..Len(bounds) : i # j => bounds[i] # bounds[j]

\* a report was emitted for a buffer that holds a name, a text, a font and a
\* box twice each, with one entry for each
DuplicatesWitness ==
    /\ pc = "exit" /\ emitted # "none"
    /\ Cardinality(Occurrences(data, LayerMarker)) = 2 /\ Len(layers) = 1
    /\ Cardinality(Occurrences(data, FontMarker)) = 2 /\ Len(fonts) = 1
    /\ Cardinality(TextOccurrences(data)) = 2 /\ Len(text_content) = 1
    /\ Cardinality(BoxOccurrences(data)) = 2 /\ Len(bounds) = 1

\* C7: extract_text and extract_bounds return normally whatever the buffer
\* holds, and return what the well-formed occurrences contribute: an
\* occurrence cut short or with values that cannot be rounded adds nothing.
MalformedSkipped ==
    /\ \A i \in 1..Len(diag) :
          diag[i] \notin {"Traceback: extract_text", "Traceback: extract_bounds"}
    /\ Returned("extract_text") => text_content = SortedStrs(TextContributions(data))
    /\ Returned("extract_bounds") =>
          /\ Range(bounds) = BoxContributions(data)
          /\ Len(bounds) = Cardinality(BoxContributions(data))

\* a report was emitted for a buffer with a text occurrence cut inside its
\* length, a box occurrence cut short and a box that cannot be rounded, next
\* to a good text and a good box
MalformedWitness ==
    /\ pc = "exit" /\ emitted # "none"
    /\ \E p \in Occurrences(data, TextMarker) : p + 9 > Len(data)
    /\ \E p \in Occurrences(data, BoundsMarker) : p + 36 > Len(data)
    /\ \E p \in BoxOccurrences(data) : BoxWidth(data, p).err
    /\ Len(text_content) = 1
    /\ Len(bounds) = 1

\* the tool left a file whose name holds zstd (in any case) or starts with 4C
StreamFile(f) ==
    \/ \E i \in 0..Len(f.name) :
          MatchAt(Lower(f.name), <<122, 115, 116, 100>>, i)
    \/ (Len(f.name) >= 2 /\ f.name[1] = 52 /\ f.name[2] = 67)

\* the fatal conditions: no argument, --from-bin without a path, a primary
\* input file that does not exist, no decompressed stream to be had (no tool
\* to run, or no stream file among its output)
NoArgument == Len(argv) < 2
FromBinWithoutPath == Len(argv) = 2 /\ argv[2] = "--from-bin"
PrimaryMissing == Len(argv) >= 2 /\ argv[2] # "--from-bin" /\ ~env.exists
NoStream ==
    /\ Len(argv) >= 2 /\ argv[2] # "--from-bin" /\ env.exists
    /\ \/ env.binwalk = "absent"
       \/ \A i \in 1..Len(env.outfiles) : ~StreamFile(env.outfiles[i])
Fatal == NoArgument \/ FromBinWithoutPath \/ PrimaryMissing \/ NoStream

\* C8: a run under a fatal condition never calls a Field Extractor and never
\* emits a report, and it ends with a diagnostic and a non-zero status; a
\* report is emitted only in a run that obtained a data buffer.
FatalEndsBeforeExtraction ==
    /\ Fatal =>
          /\ calls = <<>>
          /\ emitted = "none"
          /\ pc \in {"main", "zstd", "exit"}
          /\ pc = "exit" =>
                /\ exit_code # 0
                /\ diag # <<>>
                /\ diag[Len(diag)] \in
                      {"usage",
                       "Error: --from-bin requires a path to extracted binary data",
                       "Error: not found",
                       "Error: Could not extract ZSTD data. Is binwalk installed?",
                       "Traceback: FileNotFoundError"}
    /\ emitted # "none" => obtained

\* a run on an existing document whose tool output held no stream file ended
\* with the diagnostic
FatalWitness ==
    /\ pc = "exit"
    /\ NoStream /\ env.binwalk # "absent" /\ env.outfiles # <<>>
    /\ exit_code = 1
    /\ diag[Len(diag)] = "Error: Could not extract ZSTD data. Is binwalk installed?"

====
